---- MODULE Spec2Model ----
(***************************************************************************)
(* ResearchFlow backend: the document merge engine (apply_plan_update),    *)
(* the contract parser and the research orchestration flags of             *)
(* conversation_agent (backend/nodes.py), and the chat / plan PUT          *)
(* handlers (backend/main.py).                                             *)
(*                                                                         *)
(* Python strings are sequences of one-character strings, so that strip,   *)
(* lower, replace, title and split are computed character by character.    *)
(* JSON values are records tagged by their Python type in field t.         *)
(***************************************************************************)
EXTENDS Integers, Sequences, FiniteSets, TLC

VARIABLES
    plan,      \* the session's AccountPlan: title, version, sections, history
    pre,       \* the plan as it was when the last operation started
    upd,       \* update_data of the last apply_plan_update call
    ret,       \* what that call did: "none" | "True" | "False" | "raised"
    calls,     \* number of operations performed on the plan so far
    sess,      \* the AgentState flags of the session
    pc,        \* position of the chat turn in the graph
    turnlog,   \* observations of the last conversation_agent run
    response,  \* the response of the last chat request
    stored     \* what SESSIONS holds for the session, beside the turn's state

vars == <<plan, pre, upd, ret, calls, sess, pc, turnlog, response, stored>>

-----------------------------------------------------------------------------
(* Python str methods                                                      *)

LowerChars == <<"a","b","c","d","e","f","g","h","i","j","k","l","m",
                "n","o","p","q","r","s","t","u","v","w","x","y","z">>
UpperChars == <<"A","B","C","D","E","F","G","H","I","J","K","L","M",
                "N","O","P","Q","R","S","T","U","V","W","X","Y","Z">>

\* the characters strings are made of
Chars ==
    {LowerChars[i] : i \in 1..26} \cup {UpperChars[i] : i \in 1..26}
    \cup {"0","1","2","3","4","5","6","7","8","9"} \cup {"_", " ", ".", "\n", "{", "}"}

IsLowerChar(c) == \E i \in 1..26 : LowerChars[i] = c
IsUpperChar(c) == \E i \in 1..26 : UpperChars[i] = c
AlphaChars == {c \in Chars : IsLowerChar(c) \/ IsUpperChar(c)}
IsAlpha(c) == c \in AlphaChars
IsSpace(c) == c \in {" ", "\n"}

LowerOf ==
    [c \in Chars |->
        IF IsUpperChar(c) THEN LowerChars[CHOOSE i \in 1..26 : UpperChars[i] = c] ELSE c]
UpperOf ==
    [c \in Chars |->
        IF IsLowerChar(c) THEN UpperChars[CHOOSE i \in 1..26 : LowerChars[i] = c] ELSE c]
LowerChar(c) == LowerOf[c]
UpperChar(c) == UpperOf[c]

\* str.lower()
PyLower(s) == [i \in 1..Len(s) |-> LowerChar(s[i])]

\* str.replace('_', ' ')
PyReplaceUnderscore(s) == [i \in 1..Len(s) |-> IF s[i] = "_" THEN " " ELSE s[i]]

\* str.title(): a letter that follows a non-letter is upper-cased, every
\* other letter is lower-cased
PyTitle(s) ==
    [i \in 1..Len(s) |->
        IF IsAlpha(s[i])
        THEN IF i = 1 \/ ~IsAlpha(s[i-1]) THEN UpperChar(s[i]) ELSE LowerChar(s[i])
        ELSE s[i]]

RECURSIVE PyLStrip(_)
PyLStrip(s) ==
    IF s = <<>> THEN s
    ELSE IF IsSpace(Head(s)) THEN PyLStrip(Tail(s)) ELSE s

RECURSIVE PyRStrip(_)
PyRStrip(s) ==
    IF s = <<>> THEN s
    ELSE IF IsSpace(s[Len(s)]) THEN PyRStrip(SubSeq(s, 1, Len(s) - 1)) ELSE s

\* str.strip()
PyStrip(s) == PyRStrip(PyLStrip(s))

RECURSIVE SplitFrom(_, _, _)
SplitFrom(s, i, cur) ==
    IF i > Len(s) THEN <<cur>>
    ELSE IF s[i] = "." THEN <<cur>> \o SplitFrom(s, i + 1, <<>>)
    ELSE SplitFrom(s, i + 1, Append(cur, s[i]))

\* str.split('.')
PySplitDot(s) == SplitFrom(s, 1, <<>>)

\* string literals of nodes.py
LitContent == <<"c","o","n","t","e","n","t">>
LitTitle == <<"t","i","t","l","e">>
LitGeneral == <<"G","e","n","e","r","a","l">>
LitResearchSourcesLower ==
    <<"r","e","s","e","a","r","c","h"," ","s","o","u","r","c","e","s">>
LitResearchSources ==
    <<"R","e","s","e","a","r","c","h"," ","S","o","u","r","c","e","s">>

-----------------------------------------------------------------------------
(* JSON / Python values: [t |-> type tag, v |-> payload]                   *)

NoneV == [t |-> "none", v |-> 0]
StrV(s) == [t |-> "str", v |-> s]
IntV(n) == [t |-> "int", v |-> n]
ListV(xs) == [t |-> "list", v |-> xs]
\* a dict is the sequence of its items in insertion order
DictV(items) == [t |-> "dict", v |-> items]
Item(k, x) == [k |-> k, x |-> x]

IsDict(c) == c.t = "dict"
IsList(c) == c.t = "list"
IsStr(c) == c.t = "str"

\* a str that is only ever compared with literals ("EXECUTE_PLAN", a plan
\* title, a task), kept whole
AtomV(name) == [t |-> "atom", v |-> name]

\* Python truthiness of a value
Truthy(c) ==
    CASE c.t = "none" -> FALSE
      [] c.t = "int" -> c.v # 0
      [] c.t = "atom" -> c.v # ""
      [] c.t = "control" -> TRUE
      [] OTHER -> c.v # <<>>

DictHas(d, k) == \E i \in 1..Len(d.v) : d.v[i].k = k
DictIdx(d, k) == CHOOSE i \in 1..Len(d.v) : d.v[i].k = k
\* d[k] for a key that is present
DictAt(d, k) == d.v[DictIdx(d, k)].x
\* d.get(k)
DictGet(d, k) == IF DictHas(d, k) THEN DictAt(d, k) ELSE NoneV
\* d[k] = x: an existing key keeps its position, a new key goes last
DictSet(d, k, x) ==
    IF DictHas(d, k)
    THEN DictV([i \in 1..Len(d.v) |-> IF d.v[i].k = k THEN Item(k, x) ELSE d.v[i]])
    ELSE DictV(Append(d.v, Item(k, x)))
\* del d[k]
DictDel(d, k) == DictV(SelectSeq(d.v, LAMBDA it : it.k # k))

RECURSIVE DictUpdateFrom(_, _, _)
DictUpdateFrom(d, e, i) ==
    IF i > Len(e.v) THEN d
    ELSE DictUpdateFrom(DictSet(d, e.v[i].k, e.v[i].x), e, i + 1)
\* d.update(e)
DictUpdate(d, e) == DictUpdateFrom(d, e, 1)

\* int(content): PyIntOk is FALSE where Python raises ValueError or TypeError
DigitChars == <<"0","1","2","3","4","5","6","7","8","9">>
IsDigitStr(c) ==
    c.t = "str" /\ Len(c.v) = 1 /\ (\E i \in 1..10 : DigitChars[i] = c.v[1])
PyIntOk(c) == c.t = "int" \/ IsDigitStr(c)
PyInt(c) ==
    IF c.t = "int" THEN c.v
    ELSE (CHOOSE i \in 1..10 : DigitChars[i] = c.v[1]) - 1

-----------------------------------------------------------------------------
(* AccountPlan and PlanSection                                             *)

Section(title, content) == [title |-> title, content |-> content]

\* PlanSection(title=..., content=...): the constructor accepts the content
\* shapes of the data model (a string, a list or a mapping)
PlanSectionAccepts(content) == content.t \in {"str", "list", "dict"}

\* the snapshot with the history key left in it
SnapshotWithHistory(p) == p

\* plan.model_dump() minus "history"
Snapshot(p) == [title |-> p.title, version |-> p.version, sections |-> p.sections]

\* new_account_plan: title None, version 1, no sections, empty history
NewAccountPlan ==
    [title |-> "None", version |-> 1, sections |-> <<>>, history |-> <<>>]

-----------------------------------------------------------------------------
(* apply_plan_update, one update_item at a time                            *)

\* list.pop(i) and list.insert(i, x), on 1-based positions
SeqPop(xs, i) == SubSeq(xs, 1, i - 1) \o SubSeq(xs, i + 1, Len(xs))
SeqInsert(xs, i, x) == SubSeq(xs, 1, i - 1) \o <<x>> \o SubSeq(xs, i, Len(xs))
SeqSet(xs, i, x) == [j \in 1..Len(xs) |-> IF j = i THEN x ELSE xs[j]]

\* lines 209-212: unwrap a content the model wrapped in a section-like object
Unwrap(content) ==
    IF IsDict(content) /\ DictHas(content, LitContent)
       /\ (DictHas(content, LitTitle) \/ Len(content.v) = 1)
    THEN DictAt(content, LitContent)
    ELSE content

\* lines 231-242: does section s match the command's title
TitleMatches(s, raw_title, normalized_title) ==
    LET current_title == PyLower(PyStrip(s.title))
        current_normalized == PyReplaceUnderscore(current_title)
    IN  \/ current_normalized = PyLower(normalized_title)
        \/ current_title = PyLower(raw_title)

\* lines 229-242: 1-based index of the first matching section, 0 for -1
FindSection(sections, raw_title, normalized_title) ==
    IF \E i \in 1..Len(sections) : TitleMatches(sections[i], raw_title, normalized_title)
    THEN CHOOSE i \in 1..Len(sections) :
            /\ TitleMatches(sections[i], raw_title, normalized_title)
            /\ \A j \in 1..(i - 1) : ~TitleMatches(sections[j], raw_title, normalized_title)
    ELSE 0

\* lines 246-255: the target key of a path, <<>> when there is none
TargetKey(parts) ==
    IF Len(parts) > 1
    THEN LET potential_key == PyStrip(parts[2])
             key == IF PyLower(potential_key) = LitContent /\ Len(parts) > 2
                    THEN PyStrip(parts[3])
                    ELSE potential_key
         IN  IF key # <<>> THEN PyTitle(PyReplaceUnderscore(key)) ELSE key
    ELSE <<>>

\* lines 262-270: re-resolve the target key against the keys of a mapping
LooseKey(k) == PyLower(PyStrip(PyReplaceUnderscore(k)))
ResolveKey(content, target_key) ==
    IF target_key # <<>> /\ IsDict(content) /\ ~DictHas(content, target_key)
    THEN LET hits == {i \in 1..Len(content.v) : LooseKey(content.v[i].k) = LooseKey(target_key)}
         IN  IF hits # {}
             THEN LET found_key == content.v[CHOOSE i \in hits : \A j \in hits : i <= j].k
                  IN  IF found_key # <<>> THEN found_key ELSE target_key
             ELSE target_key
    ELSE target_key

\* the outcome of one command: the sections after it, whether it set
\* any_changed, and whether it raised out of the loop
Outcome(sections, changed, raised) ==
    [sections |-> sections, changed |-> changed, raised |-> raised]

\* MoveSection with the index clamped to 1, as if positions were 1-based
MoveSectionOneBased(sections, existing_idx, content) ==
    IF ~PyIntOk(content) THEN Outcome(sections, FALSE, FALSE)
    ELSE LET n == PyInt(content)
             new_index == IF n > 1 THEN n ELSE 1
             popped == SeqPop(sections, existing_idx)
         IN  IF existing_idx - 1 # new_index
             THEN Outcome(
                    IF new_index >= Len(popped)
                    THEN Append(popped, sections[existing_idx])
                    ELSE SeqInsert(popped, new_index + 1, sections[existing_idx]),
                    TRUE, FALSE)
             ELSE Outcome(sections, FALSE, FALSE)

\* MoveSection with an index past the end wrapping around to the front
MoveSectionWrapsAround(sections, existing_idx, content) ==
    IF ~PyIntOk(content) THEN Outcome(sections, FALSE, FALSE)
    ELSE LET n == PyInt(content)
             new_index == IF n > 0 THEN n ELSE 0
             popped == SeqPop(sections, existing_idx)
         IN  IF existing_idx - 1 # new_index
             THEN Outcome(
                    IF new_index >= Len(popped)
                    THEN <<sections[existing_idx]>> \o popped
                    ELSE SeqInsert(popped, new_index + 1, sections[existing_idx]),
                    TRUE, FALSE)
             ELSE Outcome(sections, FALSE, FALSE)

\* lines 281-303: move the section at existing_idx to int(content)
MoveSection(sections, existing_idx, content) ==
    IF ~PyIntOk(content) THEN Outcome(sections, FALSE, FALSE)
    ELSE LET n == PyInt(content)
             new_index == IF n > 0 THEN n ELSE 0
             popped == SeqPop(sections, existing_idx)
         IN  IF existing_idx - 1 # new_index
             THEN Outcome(
                    IF new_index >= Len(popped)
                    THEN Append(popped, sections[existing_idx])
                    ELSE SeqInsert(popped, new_index + 1, sections[existing_idx]),
                    TRUE, FALSE)
             ELSE Outcome(sections, FALSE, FALSE)

\* lines 315-334: append onto a target key; ok is FALSE where str + "\n" +
\* content raises TypeError
AppendKey(dict, target_key, content) ==
    LET current_val == DictGet(dict, target_key)
    IN  CASE current_val.t = "none" ->
                [ok |-> TRUE, content |-> DictSet(dict, target_key, content)]
          [] IsList(current_val) ->
                [ok |-> TRUE,
                 content |-> DictSet(dict, target_key,
                    IF IsList(content) THEN ListV(current_val.v \o content.v)
                    ELSE ListV(Append(current_val.v, content)))]
          [] IsStr(current_val) ->
                IF IsList(content)
                THEN [ok |-> TRUE,
                      content |-> DictSet(dict, target_key, ListV(<<current_val>> \o content.v))]
                ELSE IF IsStr(content)
                THEN [ok |-> TRUE,
                      content |-> DictSet(dict, target_key,
                                          StrV(current_val.v \o <<"\n">> \o content.v))]
                ELSE [ok |-> FALSE, content |-> dict]
          [] OTHER ->
                [ok |-> TRUE,
                 content |-> DictSet(dict, target_key, ListV(<<current_val, content>>))]

\* lines 336-340: merge onto a target key; ok is FALSE where
\* existing.content[target_key].update raises KeyError or AttributeError
MergeKey(dict, target_key, content) ==
    IF IsDict(content)
    THEN IF DictHas(dict, target_key) /\ IsDict(DictAt(dict, target_key))
         THEN [ok |-> TRUE,
               content |-> DictSet(dict, target_key,
                                   DictUpdate(DictAt(dict, target_key), content))]
         ELSE [ok |-> FALSE, content |-> dict]
    ELSE [ok |-> TRUE, content |-> DictSet(dict, target_key, content)]

\* lines 305-340: replace / append / merge on a target key
UpdateKey(existing, target_key, content, mode) ==
    LET dict == IF IsDict(existing) THEN existing
                ELSE IF Truthy(existing) THEN DictV(<<Item(LitGeneral, existing)>>)
                ELSE DictV(<<>>)
    IN  CASE mode = "replace" -> [ok |-> TRUE, content |-> DictSet(dict, target_key, content)]
          [] mode = "append" -> AppendKey(dict, target_key, content)
          [] mode = "merge" -> MergeKey(dict, target_key, content)
          [] OTHER -> [ok |-> TRUE, content |-> dict]

\* lines 341-359: replace / append / merge on the whole section content
UpdateWhole(existing, content, mode) ==
    CASE mode = "replace" -> content
      [] mode = "append" ->
            (CASE IsStr(existing) /\ IsStr(content) ->
                    StrV(existing.v \o <<"\n", "\n">> \o content.v)
               [] IsList(existing) /\ IsList(content) -> ListV(existing.v \o content.v)
               [] IsList(existing) /\ IsStr(content) -> ListV(Append(existing.v, content))
               [] IsDict(existing) /\ IsDict(content) -> DictUpdate(existing, content)
               [] OTHER -> content)
      [] mode = "merge" /\ IsDict(existing) /\ IsDict(content) -> DictUpdate(existing, content)
      [] OTHER -> content

\* lines 305-340: the section after the update of one key; r.ok is false when
\* the update raised
KeyOutcome(sections, existing_idx, title, r) ==
    Outcome(SeqSet(sections, existing_idx, Section(title, r.content)), r.ok, ~r.ok)

\* lines 257-359: the command on the section found at existing_idx
\* (lines 272-359, with target_key resolved)
UpdateResolved(sections, existing_idx, existing, target_key, content, mode) ==
    CASE mode = "delete" ->
            IF target_key # <<>>
            THEN IF IsDict(existing.content) /\ DictHas(existing.content, target_key)
                 THEN Outcome(SeqSet(sections, existing_idx,
                                Section(existing.title, DictDel(existing.content, target_key))),
                              TRUE, FALSE)
                 ELSE Outcome(sections, TRUE, FALSE)
            ELSE Outcome(SeqPop(sections, existing_idx), TRUE, FALSE)
      [] mode = "move" ->
            IF target_key = <<>>
            THEN MoveSection(sections, existing_idx, content)
            ELSE Outcome(sections, FALSE, FALSE)
      [] OTHER ->
            IF target_key # <<>>
            THEN KeyOutcome(sections, existing_idx, existing.title,
                            UpdateKey(existing.content, target_key, content, mode))
            ELSE Outcome(SeqSet(sections, existing_idx,
                            Section(existing.title, UpdateWhole(existing.content, content, mode))),
                         TRUE, FALSE)

UpdateExisting(sections, existing_idx, key, content, mode) ==
    UpdateResolved(sections, existing_idx, sections[existing_idx],
                   ResolveKey(sections[existing_idx].content, key), content, mode)

\* lines 361-378: the command when no section matches
CreateSection(sections, normalized_title, target_key, content, mode) ==
    IF mode = "delete" THEN Outcome(sections, FALSE, FALSE)
    ELSE LET final_content == IF target_key # <<>>
                              THEN DictV(<<Item(target_key, content)>>)
                              ELSE content
         IN  IF PlanSectionAccepts(final_content)
             THEN Outcome(Append(sections, Section(normalized_title, final_content)), TRUE, FALSE)
             ELSE Outcome(sections, FALSE, FALSE)

\* lines 203-378: one iteration of the loop over the update items
\* (lines 257-378, with the section looked up)
ApplyFound(sections, existing_idx, normalized_title, target_key, content, mode) ==
    IF existing_idx > 0
    THEN UpdateExisting(sections, existing_idx, target_key, content, mode)
    ELSE CreateSection(sections, normalized_title, target_key, content, mode)

\* (lines 219-378, with the section path split)
ApplyTitled(sections, raw_title, normalized_title, target_key, content, mode) ==
    ApplyFound(sections, FindSection(sections, raw_title, normalized_title),
               normalized_title, target_key, content, mode)

ApplyItem(sections, update_item) ==
    LET parts == PySplitDot(update_item.section)
        raw_title == PyStrip(parts[1])
    IN  IF update_item.section = <<>> THEN Outcome(sections, FALSE, FALSE)
        ELSE ApplyTitled(sections, raw_title, PyTitle(PyReplaceUnderscore(raw_title)),
                         TargetKey(parts), Unwrap(update_item.content), update_item.mode)

\* lines 202-378: the loop; it stops at the first item that raises
RECURSIVE ApplyItems(_, _, _, _)
\* r is what item i did: an item that raises ends the loop
AfterItem(r, updates, i, any_changed) ==
    IF r.raised THEN Outcome(r.sections, any_changed, TRUE)
    ELSE ApplyItems(r.sections, updates, i + 1, any_changed \/ r.changed)

ApplyItems(sections, updates, i, any_changed) ==
    IF i > Len(updates) THEN Outcome(sections, any_changed, FALSE)
    ELSE AfterItem(ApplyItem(sections, updates[i]), updates, i, any_changed)

\* RelocateResearchSources with the index tested for truth, so that a
\* section found at index 0 stays where it is
RelocateUnlessFirst(sections) ==
    LET hits == {i \in 1..Len(sections) : PyLower(sections[i].title) = LitResearchSourcesLower}
    IN  IF hits # {}
        THEN LET research_section_idx == CHOOSE i \in hits : \A j \in hits : i <= j
             IN  IF research_section_idx > 1 /\ research_section_idx < Len(sections)
                 THEN Append(SeqPop(sections, research_section_idx),
                             sections[research_section_idx])
                 ELSE sections
        ELSE sections

\* lines 380-391: move the first section titled "research sources" to the end
RelocateResearchSources(sections) ==
    LET hits == {i \in 1..Len(sections) : PyLower(sections[i].title) = LitResearchSourcesLower}
    IN  IF hits # {}
        THEN LET research_section_idx == CHOOSE i \in hits : \A j \in hits : i <= j
             IN  IF research_section_idx < Len(sections)
                 THEN Append(SeqPop(sections, research_section_idx),
                             sections[research_section_idx])
                 ELSE sections
        ELSE sections

\* an update object: {"section": ..., "content": ..., "mode": ...}
Cmd(section, content, mode) == [section |-> section, content |-> content, mode |-> mode]

\* update_data as the model sends it: null, one object, or a list of objects
NullUpdate == NoneV
OneUpdate(item) == [t |-> "obj", v |-> <<item>>]
ListUpdate(items) == [t |-> "list", v |-> items]

\* "not update_data" of line 190: None, or an empty list
UpdateIsFalsy(update_data) == update_data.t = "none" \/ update_data.v = <<>>

\* lines 193-197: the history after the snapshot is appended
AppendSnapshot(p) == Append(p.history, Snapshot(p))

\* apply_plan_update that snapshots only when a command changed something
\* lines 380-393: r is what the loop did
AfterLoop(p, history, r) ==
    [plan |-> [p EXCEPT !.sections = IF ~r.raised /\ r.changed
                                     THEN RelocateResearchSources(r.sections)
                                     ELSE r.sections,
                        !.history = history],
     ret |-> IF r.raised THEN "raised" ELSE IF r.changed THEN "True" ELSE "False"]

\* AfterLoop with the snapshot kept only when a command changed something
AfterLoopSnapshotOnChange(p, r) ==
    AfterLoop(p, IF r.changed THEN AppendSnapshot(p) ELSE p.history, r)

ApplyPlanUpdateSnapshotOnChange(p, update_data) ==
    IF UpdateIsFalsy(update_data) THEN [plan |-> p, ret |-> "False"]
    ELSE AfterLoopSnapshotOnChange(p, ApplyItems(p.sections, update_data.v, 1, FALSE))

\* apply_plan_update(plan, update_data): the plan after the call and what the
\* call did ("True", "False", or "raised" when an item raised out of the loop)
ApplyPlanUpdate(p, update_data) ==
    IF UpdateIsFalsy(update_data) THEN [plan |-> p, ret |-> "False"]
    ELSE AfterLoop(p, AppendSnapshot(p), ApplyItems(p.sections, update_data.v, 1, FALSE))

-----------------------------------------------------------------------------
(* The contract parser                                                     *)

(* A completion output is a sequence of tokens: single characters, and     *)
(* lexemes that stand for a well-formed "key": value member of a JSON      *)
(* object or for a JSON scalar, with the value already in structured form. *)
Ch(c) == [t |-> "ch", k |-> <<c>>, x |-> NoneV]
Member(k, x) == [t |-> "member", k |-> k, x |-> x]
Scalar(x) == [t |-> "scalar", k |-> <<>>, x |-> x]
LBrace == Ch("{")
RBrace == Ch("}")

IsWhitespaceToken(tok) == tok.t = "ch" /\ IsSpace(tok.k[1])

RECURSIVE TrimLeft(_)
TrimLeft(text) ==
    IF text = <<>> THEN text
    ELSE IF IsWhitespaceToken(Head(text)) THEN TrimLeft(Tail(text)) ELSE text

RECURSIVE TrimRight(_)
TrimRight(text) ==
    IF text = <<>> THEN text
    ELSE IF IsWhitespaceToken(text[Len(text)])
         THEN TrimRight(SubSeq(text, 1, Len(text) - 1)) ELSE text

RECURSIVE MembersToDict(_, _, _)
MembersToDict(text, i, d) ==
    IF i >= Len(text) THEN d
    ELSE MembersToDict(text, i + 1, DictSet(d, text[i].k, text[i].x))

\* json.loads(text): ok is FALSE where it raises JSONDecodeError
JsonLoads(raw) ==
    LET text == TrimRight(TrimLeft(raw))
    IN  IF /\ Len(text) >= 2 /\ text[1] = LBrace /\ text[Len(text)] = RBrace
           /\ \A i \in 2..(Len(text) - 1) : text[i].t = "member"
        THEN [ok |-> TRUE, value |-> MembersToDict(text, 2, DictV(<<>>))]
        ELSE IF Len(text) = 1 /\ text[1].t = "scalar"
        THEN [ok |-> TRUE, value |-> text[1].x]
        ELSE [ok |-> FALSE, value |-> NoneV]

\* text.find('{') and text.rfind('}'), 1-based, 0 for -1
FindLBrace(text) ==
    IF \E i \in 1..Len(text) : text[i] = LBrace
    THEN CHOOSE i \in 1..Len(text) : text[i] = LBrace /\ \A j \in 1..(i - 1) : text[j] # LBrace
    ELSE 0
RFindRBrace(text) ==
    IF \E i \in 1..Len(text) : text[i] = RBrace
    THEN CHOOSE i \in 1..Len(text) :
            text[i] = RBrace /\ \A j \in (i + 1)..Len(text) : text[j] # RBrace
    ELSE 0

\* the text between the first '{' and the last '}', and whether both exist
JsonBlock(text) ==
    LET start == FindLBrace(text)
        end == RFindRBrace(text)
    IN  [found |-> start # 0 /\ end # 0,
         raw |-> IF start # 0 /\ end # 0 THEN SubSeq(text, start, end) ELSE <<>>]

\* a JSON value is decoded from the text, whole or between its braces
HoldsJsonValue(text) ==
    JsonLoads(text).ok \/ (JsonBlock(text).found /\ JsonLoads(JsonBlock(text).raw).ok)

\* parse_json_output(text): the value, None when nothing parses
ParseJsonOutput(text) ==
    IF JsonLoads(text).ok THEN JsonLoads(text).value
    ELSE IF JsonBlock(text).found /\ JsonLoads(JsonBlock(text).raw).ok
    THEN JsonLoads(JsonBlock(text).raw).value
    ELSE NoneV

\* keys of the format contract
KeyReply == <<"r","e","p","l","y">>
KeyControl == <<"c","o","n","t","r","o","l">>
KeyUpdate == <<"u","p","d","a","t","e">>

\* a control object: each field is a value, Absent when the key is missing
Absent == [t |-> "absent", v |-> 0]
ControlV(action, research_query, target_section, set_plan_title, research_plan) ==
    [t |-> "control",
     v |-> [action |-> action, research_query |-> research_query,
            target_section |-> target_section, set_plan_title |-> set_plan_title,
            research_plan |-> research_plan]]
\* control.get(field, default) and control.get(field)
ControlGet(control, field, default) ==
    IF control.v[field] = Absent THEN default ELSE control.v[field]
\* parsed.get("control", {})
EmptyControl == ControlV(Absent, Absent, Absent, Absent, Absent)

\* the characters before position json_start, as a str
RECURSIVE TokenChars(_)
TokenChars(text) ==
    IF text = <<>> THEN <<>>
    ELSE (IF Head(text).t = "ch" THEN Head(text).k ELSE <<"?">>) \o TokenChars(Tail(text))

\* the resolved directive of a conversation step
Directive(reply, action, query, section, title, research_plan, update_data, raised) ==
    [reply |-> reply, action |-> action, research_query |-> query,
     target_section |-> section, set_plan_title |-> title,
     new_research_plan |-> research_plan, update_data |-> update_data,
     raised |-> raised]

\* the reply when the raw content is surfaced
RawReply(content) == [t |-> "raw", v |-> content]
\* f"I've updated the {potential_title} section."
UpdatedReply(potential_title) == [t |-> "updated", v |-> potential_title]

\* lines 517-559: the fields taken from parsed, with their defaults; raised
\* where control.get raises AttributeError (control is not an object)
ExtractDirective(parsed, content) ==
    IF Truthy(parsed) /\ IsDict(parsed)
       /\ (DictHas(parsed, KeyControl) \/ DictHas(parsed, KeyReply) \/ DictHas(parsed, KeyUpdate))
    THEN LET control == IF DictHas(parsed, KeyControl) THEN DictAt(parsed, KeyControl)
                        ELSE EmptyControl
             reply_text == IF DictHas(parsed, KeyReply) THEN DictAt(parsed, KeyReply)
                           ELSE StrV(<<>>)
         IN  IF control.t # "control"
             THEN Directive(reply_text, AtomV("NONE"), StrV(<<>>), StrV(<<>>), NoneV,
                            NoneV, NoneV, TRUE)
             ELSE Directive(reply_text,
                            ControlGet(control, "action", AtomV("NONE")),
                            ControlGet(control, "research_query", StrV(<<>>)),
                            ControlGet(control, "target_section", StrV(<<>>)),
                            ControlGet(control, "set_plan_title", NoneV),
                            ControlGet(control, "research_plan", NoneV),
                            DictGet(parsed, KeyUpdate), FALSE)
    ELSE IF Truthy(parsed)
    THEN LET json_start == IF IsDict(parsed) THEN FindLBrace(content) ELSE 0
             potential_title == PyStrip(TokenChars(SubSeq(content, 1, json_start - 1)))
         IN  IF json_start > 1 /\ potential_title # <<>> /\ Len(potential_title) < 100
             THEN Directive(UpdatedReply(potential_title), AtomV("NONE"), StrV(<<>>),
                            StrV(<<>>), NoneV, NoneV,
                            OneUpdate(Cmd(potential_title, parsed, "merge")), FALSE)
             ELSE Directive(RawReply(content), AtomV("NONE"), StrV(<<>>), StrV(<<>>),
                            NoneV, NoneV, NoneV, FALSE)
    ELSE Directive(RawReply(content), AtomV("NONE"), StrV(<<>>), StrV(<<>>),
                   NoneV, NoneV, NoneV, FALSE)

-----------------------------------------------------------------------------
(* Inputs of the merge engine                                              *)

MaxCalls == 2

PathA == <<"a">>
PathB == <<"b">>
PathUnderscoreA == <<"_","a">>
PathResearchSources == LitResearchSourcesLower
PathAKey == <<"a",".","k">>
PathAContentKey == <<"A",".","c","o","n","t","e","n","t",".","K">>

\* the paths that get every mode and content, and those that get a few
FullPaths == {PathA, PathAKey, PathResearchSources}
SidePaths == {PathB, PathUnderscoreA}

StrX == StrV(<<"x">>)
ListY == ListV(<<StrV(<<"y">>)>>)
DictKZ == DictV(<<Item(<<"K">>, StrV(<<"z">>))>>)

\* the commands a model output may carry
Commands ==
    {Cmd(s, c, m) : s \in FullPaths, c \in {StrX, ListY, DictKZ},
                    m \in {"replace", "append", "merge"}}
    \cup {Cmd(s, c, "move") : s \in FullPaths, c \in {IntV(0), IntV(1), IntV(2), StrX}}
    \cup {Cmd(s, NoneV, "delete") : s \in FullPaths}
    \cup {Cmd(s, StrX, "replace") : s \in SidePaths}
    \cup {Cmd(s, IntV(0), "move") : s \in SidePaths}
    \cup {Cmd(s, NoneV, "delete") : s \in SidePaths}
    \cup {Cmd(PathAKey, StrX, "upsert"), Cmd(<<>>, StrX, "replace"),
          Cmd(PathAContentKey, StrX, "replace"), Cmd(PathA, IntV(7), "append")}

\* two-command lists: a first command that may raise or be skipped, then a
\* second one
FirstCommands ==
    {Cmd(PathA, StrX, "replace"), Cmd(PathResearchSources, IntV(0), "move"),
     Cmd(PathA, StrX, "move"), Cmd(PathAKey, DictKZ, "merge"),
     Cmd(PathAKey, IntV(7), "append")}
SecondCommands ==
    {Cmd(PathB, ListY, "replace"), Cmd(PathResearchSources, ListY, "append"),
     Cmd(PathB, IntV(0), "move"), Cmd(PathA, StrX, "replace")}

Updates ==
    {NullUpdate, ListUpdate(<<>>)}
    \cup {OneUpdate(c) : c \in Commands}
    \cup {ListUpdate(<<c, d>>) : c \in FirstCommands, d \in SecondCommands}

-----------------------------------------------------------------------------
(* The session (AgentState) and the conversation step                      *)

\* SESSIONS.get(session_id): no entry yet; an entry whose plan is the object
\* the turn holds; an entry whose plan a PUT has replaced by another object
NotStored == [t |-> "absent", v |-> 0]
StoredSame == [t |-> "same", v |-> 0]
StoredPlan(p) == [t |-> "plan", v |-> p]

\* a new AgentState(): no key is set yet
SessInit ==
    [has_plan |-> FALSE,
     n_messages |-> 0,              \* len(state["messages"])
     last_ai |-> <<>>,              \* content of the last AIMessage
     research_needed |-> FALSE,
     last_action |-> AtomV("NONE"),
     new_version_created |-> FALSE,
     research_plan |-> NoneV,
     current_task_index |-> 0,
     aggregated_findings |-> 0,     \* len(state["aggregated_findings"])
     research_mode |-> "unset",
     research_plan_approved |-> FALSE,
     research_result |-> NoneV,
     steps_in_current_turn |-> 0,
     continue_after_pause |-> FALSE,
     research_query |-> StrV(<<>>),
     target_section |-> StrV(<<>>)]

\* the fields of the session that hold a research plan and its progress
PlanProgress(state) ==
    [research_plan |-> state.research_plan,
     current_task_index |-> state.current_task_index,
     aggregated_findings |-> state.aggregated_findings,
     research_mode |-> state.research_mode,
     research_plan_approved |-> state.research_plan_approved]

\* what the last conversation_agent run did
TurnLog(llm_calls, first_parsed, retried, action, steps, outcome) ==
    [llm_calls |-> llm_calls,       \* completion calls made
     first_parsed |-> first_parsed, \* the first output held a JSON value
     retried |-> retried,           \* the retry call was made
     action |-> action,             \* the resolved action
     steps |-> steps,               \* steps_in_current_turn when it ran
     outcome |-> outcome,           \* "returned" | "raised"
     first |-> <<>>,                \* the first completion output
     second |-> <<>>,               \* the output of the retry call
     reply |-> NoneV,               \* reply_text
     research_query |-> NoneV,      \* research_query
     new_research_plan |-> NoneV,   \* new_research_plan
     before |-> PlanProgress(SessInit), \* the plan progress when it started
     research_result |-> NoneV]     \* research_result when it started
TurnLogInit == TurnLog(0, FALSE, FALSE, AtomV("NONE"), 0, "none")

\* the locals of a run that got as far as the directive
TurnLogOf(log, first, second, d) ==
    [log EXCEPT !.first = first.content,
                !.new_research_plan = d.new_research_plan,
                !.before = PlanProgress(sess),
                !.research_result = sess.research_result,
                !.second = IF log.retried /\ second.ok THEN second.content ELSE <<>>,
                !.reply = d.reply,
                !.research_query = d.research_query]

\* lines 585-616 with steps_in_current_turn compared against 2
HandleActionLatePause(state, d) ==
    CASE d.action = AtomV("PLAN_RESEARCH") ->
            IF Truthy(d.new_research_plan)
            THEN [state EXCEPT !.research_plan = d.new_research_plan,
                               !.current_task_index = 0,
                               !.aggregated_findings = 0,
                               !.research_mode = "multi",
                               !.research_plan_approved = FALSE,
                               !.research_needed = FALSE]
            ELSE [state EXCEPT !.research_needed = FALSE]
      [] d.action = AtomV("EXECUTE_PLAN") ->
            IF state.steps_in_current_turn >= 2
            THEN [state EXCEPT !.research_needed = FALSE,
                               !.continue_after_pause = TRUE,
                               !.research_plan_approved = TRUE]
            ELSE [state EXCEPT !.research_needed = TRUE,
                               !.continue_after_pause = FALSE,
                               !.research_mode = "multi",
                               !.research_plan_approved = TRUE]
      [] d.action = AtomV("CALL_RESEARCH") ->
            [state EXCEPT !.research_needed = TRUE,
                          !.research_mode = "single",
                          !.research_query = d.research_query,
                          !.target_section = d.target_section]
      [] OTHER -> [state EXCEPT !.research_needed = FALSE]

\* HandleAction with a new research plan that keeps the position reached in
\* the plan before it
HandleActionKeepsIndex(state, d) ==
    CASE d.action = AtomV("PLAN_RESEARCH") ->
            IF Truthy(d.new_research_plan)
            THEN [state EXCEPT !.research_plan = d.new_research_plan,
                               !.aggregated_findings = 0,
                               !.research_mode = "multi",
                               !.research_plan_approved = FALSE,
                               !.research_needed = FALSE]
            ELSE [state EXCEPT !.research_needed = FALSE]
      [] d.action = AtomV("EXECUTE_PLAN") ->
            IF state.steps_in_current_turn >= 1
            THEN [state EXCEPT !.research_needed = FALSE,
                               !.continue_after_pause = TRUE,
                               !.research_plan_approved = TRUE]
            ELSE [state EXCEPT !.research_needed = TRUE,
                               !.continue_after_pause = FALSE,
                               !.research_mode = "multi",
                               !.research_plan_approved = TRUE]
      [] d.action = AtomV("CALL_RESEARCH") ->
            [state EXCEPT !.research_needed = TRUE,
                          !.research_mode = "single",
                          !.research_query = d.research_query,
                          !.target_section = d.target_section]
      [] OTHER -> [state EXCEPT !.research_needed = FALSE]

\* lines 585-616: the research action of the directive
HandleAction(state, d) ==
    CASE d.action = AtomV("PLAN_RESEARCH") ->
            IF Truthy(d.new_research_plan)
            THEN [state EXCEPT !.research_plan = d.new_research_plan,
                               !.current_task_index = 0,
                               !.aggregated_findings = 0,
                               !.research_mode = "multi",
                               !.research_plan_approved = FALSE,
                               !.research_needed = FALSE]
            ELSE [state EXCEPT !.research_needed = FALSE]
      [] d.action = AtomV("EXECUTE_PLAN") ->
            IF state.steps_in_current_turn >= 1
            THEN [state EXCEPT !.research_needed = FALSE,
                               !.continue_after_pause = TRUE,
                               !.research_plan_approved = TRUE]
            ELSE [state EXCEPT !.research_needed = TRUE,
                               !.continue_after_pause = FALSE,
                               !.research_mode = "multi",
                               !.research_plan_approved = TRUE]
      [] d.action = AtomV("CALL_RESEARCH") ->
            [state EXCEPT !.research_needed = TRUE,
                          !.research_mode = "single",
                          !.research_query = d.research_query,
                          !.target_section = d.target_section]
      [] OTHER -> [state EXCEPT !.research_needed = FALSE]

\* main.py lines 95-117: the reply field of a message that is, or holds
\* between its first '{' and its last '}', a JSON object with that field;
\* the message itself otherwise
GetCleanContent(msg_content) ==
    IF /\ JsonLoads(msg_content).ok
       /\ IsDict(JsonLoads(msg_content).value)
       /\ DictHas(JsonLoads(msg_content).value, KeyReply)
    THEN DictAt(JsonLoads(msg_content).value, KeyReply)
    ELSE IF /\ JsonBlock(msg_content).found
            /\ JsonLoads(JsonBlock(msg_content).raw).ok
            /\ IsDict(JsonLoads(JsonBlock(msg_content).raw).value)
            /\ DictHas(JsonLoads(JsonBlock(msg_content).raw).value, KeyReply)
    THEN DictAt(JsonLoads(JsonBlock(msg_content).raw).value, KeyReply)
    ELSE RawReply(msg_content)

KeyConflicts == <<"c","o","n","f","l","i","c","t","s">>
KeyQuery == <<"q","u","e","r","y">>
LitResearchTask == <<"R","e","s","e","a","r","c","h"," ","T","a","s","k">>

\* progress = None
NoProgress ==
    [shown |-> FALSE, current_step |-> 0, total_steps |-> 0, label |-> NoneV,
     visual |-> "none", tasks |-> NoneV, conflicts |-> NoneV]

\* main.py lines 257-265: the label of a plan in execution
ProgressLabel(research_plan, current_idx) ==
    IF current_idx < Len(research_plan.v)
    THEN [t |-> "step", v |-> <<current_idx + 1, Len(research_plan.v),
                                research_plan.v[current_idx + 1]>>]
    ELSE [t |-> "synthesizing", v |-> <<>>]

\* Progress with the steps of the turn as the current step
ProgressOfTurnSteps(new_state) ==
    IF /\ Truthy(new_state.research_plan) /\ new_state.research_mode = "multi"
       /\ new_state.research_plan_approved
    THEN [shown |-> TRUE,
          current_step |-> new_state.steps_in_current_turn + 1,
          total_steps |-> Len(new_state.research_plan.v),
          label |-> ProgressLabel(new_state.research_plan, new_state.current_task_index),
          visual |-> "progress_bar",
          tasks |-> new_state.research_plan,
          conflicts |-> IF /\ Truthy(new_state.research_result)
                           /\ DictHas(new_state.research_result, KeyConflicts)
                        THEN DictAt(new_state.research_result, KeyConflicts)
                        ELSE ListV(<<>>)]
    ELSE IF new_state.research_mode = "single" /\ Truthy(new_state.research_result)
    THEN [shown |-> TRUE, current_step |-> 1, total_steps |-> 1,
          label |-> [t |-> "complete", v |-> <<>>],
          visual |-> "check",
          tasks |-> ListV(<<IF DictHas(new_state.research_result, KeyQuery)
                            THEN DictAt(new_state.research_result, KeyQuery)
                            ELSE StrV(LitResearchTask)>>),
          conflicts |-> IF DictHas(new_state.research_result, KeyConflicts)
                        THEN DictAt(new_state.research_result, KeyConflicts)
                        ELSE ListV(<<>>)]
    ELSE NoProgress

\* main.py lines 247-286: the progress object of the response
Progress(new_state) ==
    IF /\ Truthy(new_state.research_plan) /\ new_state.research_mode = "multi"
       /\ new_state.research_plan_approved
    THEN [shown |-> TRUE,
          current_step |-> new_state.current_task_index + 1,
          total_steps |-> Len(new_state.research_plan.v),
          label |-> ProgressLabel(new_state.research_plan, new_state.current_task_index),
          visual |-> "progress_bar",
          tasks |-> new_state.research_plan,
          conflicts |-> IF /\ Truthy(new_state.research_result)
                           /\ DictHas(new_state.research_result, KeyConflicts)
                        THEN DictAt(new_state.research_result, KeyConflicts)
                        ELSE ListV(<<>>)]
    ELSE IF new_state.research_mode = "single" /\ Truthy(new_state.research_result)
    THEN [shown |-> TRUE, current_step |-> 1, total_steps |-> 1,
          label |-> [t |-> "complete", v |-> <<>>],
          visual |-> "check",
          tasks |-> ListV(<<IF DictHas(new_state.research_result, KeyQuery)
                            THEN DictAt(new_state.research_result, KeyQuery)
                            ELSE StrV(LitResearchTask)>>),
          conflicts |-> IF DictHas(new_state.research_result, KeyConflicts)
                        THEN DictAt(new_state.research_result, KeyConflicts)
                        ELSE ListV(<<>>)]
    ELSE NoProgress

\* main.py lines 220-313: the response of a chat request
NoResponse == [sent |-> FALSE, reply |-> NoneV, progress |-> NoProgress]
ChatResponse(new_state) ==
    [sent |-> TRUE, reply |-> GetCleanContent(new_state.last_ai),
     progress |-> Progress(new_state)]

\* keys and defaults of a research result and of its sources
KeySources == <<"s","o","u","r","c","e","s">>
KeyUrl == <<"u","r","l">>
KeySnippet == <<"s","n","i","p","p","e","t">>
LitSource == <<"S","o","u","r","c","e">>
LitHash == <<"#">>

\* lines 486-492: the title, url and snippet of every source
SourcesContent(sources) ==
    ListV([i \in 1..Len(sources.v) |->
        LET src == sources.v[i]
        IN  DictV(<<Item(LitTitle, IF DictHas(src, LitTitle) THEN DictAt(src, LitTitle)
                                   ELSE StrV(LitSource)),
                    Item(KeyUrl, IF DictHas(src, KeyUrl) THEN DictAt(src, KeyUrl)
                                 ELSE StrV(LitHash)),
                    Item(KeySnippet, IF DictHas(src, KeySnippet) THEN DictAt(src, KeySnippet)
                                     ELSE StrV(<<>>))>>)])

\* InjectSources with the sources left in research_result
InjectSourcesKeepsKey(p, research_result) ==
    IF Truthy(research_result)
    THEN LET sources == IF DictHas(research_result, KeySources)
                        THEN DictAt(research_result, KeySources) ELSE ListV(<<>>)
         IN  [plan |-> IF Truthy(sources)
                       THEN ApplyPlanUpdate(p,
                                OneUpdate(Cmd(LitResearchSources, SourcesContent(sources),
                                              "append"))).plan
                       ELSE p,
              research_result |-> research_result]
    ELSE [plan |-> p, research_result |-> research_result]

\* lines 480-510: the sources of research_result are appended to the
\* "Research Sources" section and removed from research_result
InjectSources(p, research_result) ==
    IF Truthy(research_result)
    THEN LET sources == IF DictHas(research_result, KeySources)
                        THEN DictAt(research_result, KeySources) ELSE ListV(<<>>)
         IN  [plan |-> IF Truthy(sources)
                       THEN ApplyPlanUpdate(p,
                                OneUpdate(Cmd(LitResearchSources, SourcesContent(sources),
                                              "append"))).plan
                       ELSE p,
              research_result |-> DictDel(research_result, KeySources)]
    ELSE [plan |-> p, research_result |-> research_result]

\* Completion with the first output kept as the content after a retry
CompletionKeepsFirst(first, second) ==
    IF Truthy(ParseJsonOutput(first.content))
    THEN [llm_calls |-> 1, retried |-> FALSE, content |-> first.content,
          parsed |-> ParseJsonOutput(first.content)]
    ELSE IF second.ok
    THEN [llm_calls |-> 2, retried |-> TRUE, content |-> first.content,
          parsed |-> ParseJsonOutput(second.content)]
    ELSE [llm_calls |-> 2, retried |-> TRUE, content |-> first.content,
          parsed |-> ParseJsonOutput(first.content)]

\* lines 457-478: the completion calls of one run. first and second are what
\* the completion service returns to the first and to the retry call
\* ([ok |-> FALSE] when the call raises)
Completion(first, second) ==
    IF Truthy(ParseJsonOutput(first.content))
    THEN [llm_calls |-> 1, retried |-> FALSE, content |-> first.content,
          parsed |-> ParseJsonOutput(first.content)]
    ELSE IF second.ok
    THEN [llm_calls |-> 2, retried |-> TRUE, content |-> second.content,
          parsed |-> ParseJsonOutput(second.content)]
    ELSE [llm_calls |-> 2, retried |-> TRUE, content |-> first.content,
          parsed |-> ParseJsonOutput(first.content)]

\* lines 567-583: the model's update and title are applied to the plan
ApplyTitle(r, set_plan_title) ==
    [plan |-> IF Truthy(set_plan_title) THEN [r.plan EXCEPT !.title = set_plan_title.v]
              ELSE r.plan,
     ret |-> r.ret,
     version_bumped |-> (r.ret = "True") \/ Truthy(set_plan_title)]

ApplyDirective(p, d) ==
    ApplyTitle(IF ~UpdateIsFalsy(d.update_data) THEN ApplyPlanUpdate(p, d.update_data)
               ELSE [plan |-> p, ret |-> "none"],
               d.set_plan_title)

-----------------------------------------------------------------------------
(* The merge engine on its own: apply_plan_update calls on a new plan      *)

InitMerge ==
    /\ plan = NewAccountPlan
    /\ pre = NewAccountPlan
    /\ upd = NullUpdate
    /\ ret = "none"
    /\ calls = 0
    /\ sess = SessInit
    /\ pc = "idle"
    /\ turnlog = TurnLogInit
    /\ response = NoResponse
    /\ stored = NotStored

Apply(update_data) ==
    /\ calls < MaxCalls
    /\ \E r \in {ApplyPlanUpdate(plan, update_data)} :
           /\ plan' = r.plan
           /\ ret' = r.ret
    /\ pre' = plan
    /\ upd' = update_data
    /\ calls' = calls + 1
    /\ UNCHANGED <<sess, pc, turnlog, response, stored>>

NextMerge == \E u \in Updates : Apply(u)

SpecMerge == InitMerge /\ [][NextMerge]_vars

-----------------------------------------------------------------------------
(* Inputs of the session: what the completion and research services return *)

\* len(messages) and plan.version are unbounded in the code
MaxMessages == 5
MaxVersion == 2

Tasks == ListV(<<AtomV("t1"), AtomV("t2")>>)

Object(members) == <<LBrace>> \o members \o <<RBrace>>
ReplyHi == Member(KeyReply, StrV(<<"h","i">>))
ControlOf(action) ==
    Member(KeyControl, ControlV(AtomV(action), StrV(<<>>), Absent, Absent, Absent))

OutNone == Object(<<ReplyHi, ControlOf("NONE"), Member(KeyUpdate, NoneV)>>)
OutCallResearch ==
    Object(<<ReplyHi,
             Member(KeyControl, ControlV(AtomV("CALL_RESEARCH"), StrV(<<"q">>),
                                         StrV(PathA), NoneV, NoneV))>>)
OutPlanResearch ==
    Object(<<ReplyHi,
             Member(KeyControl, ControlV(AtomV("PLAN_RESEARCH"), StrV(<<>>),
                                         NoneV, NoneV, Tasks))>>)
\* a research plan of one task
OutPlanOne ==
    Object(<<ReplyHi,
             Member(KeyControl, ControlV(AtomV("PLAN_RESEARCH"), StrV(<<>>),
                                         NoneV, NoneV, ListV(<<AtomV("t1")>>)))>>)
OutPlanEmpty ==
    Object(<<ReplyHi,
             Member(KeyControl, ControlV(AtomV("PLAN_RESEARCH"), StrV(<<>>),
                                         NoneV, NoneV, ListV(<<>>)))>>)
OutExecutePlan ==
    Object(<<ReplyHi, ControlOf("EXECUTE_PLAN"),
             Member(KeyUpdate, OneUpdate(Cmd(PathA, StrX, "append")))>>)
OutUpdate ==
    Object(<<ReplyHi, ControlOf("NONE"),
             Member(KeyUpdate, OneUpdate(Cmd(PathA, StrX, "replace")))>>)
OutNoChange ==
    Object(<<ReplyHi, ControlOf("NONE"),
             Member(KeyUpdate, OneUpdate(Cmd(PathA, StrX, "move")))>>)
OutTitle ==
    Object(<<ReplyHi,
             Member(KeyControl, ControlV(AtomV("NONE"), StrV(<<>>), NoneV,
                                         AtomV("T1"), NoneV))>>)
\* prose before a well-formed directive
OutProseObject == <<Ch("H"), Ch("i"), Ch("\n")>> \o OutNone
\* "So {bad": no JSON value anywhere
OutMalformed == <<Ch("S"), Ch("o"), Ch(" "), LBrace, Ch("b"), Ch("a"), Ch("d")>>
\* "{bad": no JSON value either
OutMalformedAgain == <<LBrace, Ch("b"), Ch("a"), Ch("d")>>
\* "{}"
OutEmptyObject == Object(<<>>)
\* a section title, then an object that is not a directive
OutTitledObject == <<Ch("b"), Ch("\n")>> \o Object(<<Member(<<"K">>, StrV(<<"z">>))>>)
\* "control": null
OutControlNull == Object(<<ReplyHi, Member(KeyControl, NoneV)>>)

LlmOutputs ==
    {OutNone, OutCallResearch, OutPlanResearch, OutPlanEmpty, OutExecutePlan,
     OutUpdate, OutNoChange, OutTitle, OutProseObject, OutMalformed, OutEmptyObject,
     OutTitledObject, OutControlNull, OutMalformedAgain, OutPlanOne}

\* what a completion call returns, or that it raised
LlmReturns(content) == [ok |-> TRUE, content |-> content]
LlmRaises == [ok |-> FALSE, content |-> <<>>]
LlmResults == {LlmReturns(t) : t \in LlmOutputs} \cup {LlmRaises}

KeySummary == <<"s","u","m","m","a","r","y">>
SourceS == DictV(<<Item(LitTitle, StrV(<<"s">>)), Item(KeyUrl, StrV(<<"u">>))>>)
\* research results: with one source, with an empty sources list
ResearchResults ==
    {DictV(<<Item(KeySummary, StrX), Item(KeySources, ListV(<<SourceS>>))>>),
     DictV(<<Item(KeySummary, StrX), Item(KeySources, ListV(<<>>))>>)}

\* the plans a PUT may carry: its title, version and sections
PutPlans ==
    {[title |-> "T2", version |-> 1, sections |-> <<Section(<<"B">>, StrX)>>],
     [title |-> "None", version |-> MaxVersion, sections |-> <<>>]}

-----------------------------------------------------------------------------
(* The chat turn: chat (main.py), the graph, conversation_agent            *)

Init ==
    /\ plan = NewAccountPlan
    /\ pre = NewAccountPlan
    /\ upd = NullUpdate
    /\ ret = "none"
    /\ calls = 0
    /\ sess = SessInit
    /\ pc = "idle"
    /\ turnlog = TurnLogInit
    /\ response = NoResponse
    /\ stored = NotStored

\* Chat without the clearing of research_result
ChatKeepsResult ==
    /\ pc = "idle"
    /\ sess.n_messages < MaxMessages
    /\ plan' = IF sess.has_plan THEN plan ELSE NewAccountPlan
    /\ sess' = [sess EXCEPT !.has_plan = TRUE,
                            !.n_messages = @ + 1,
                            !.steps_in_current_turn = 0,
                            !.continue_after_pause = FALSE]
    /\ pc' = "conv"
    /\ pre' = plan'
    /\ upd' = NullUpdate
    /\ ret' = "none"
    /\ turnlog' = TurnLogInit
    /\ response' = NoResponse
    /\ UNCHANGED <<calls, stored>>

\* main.py lines 133-206: a chat request up to the invocation of the graph
Chat ==
    /\ pc = "idle"
    /\ sess.n_messages < MaxMessages
    /\ plan' = IF sess.has_plan THEN plan ELSE NewAccountPlan
    /\ sess' = [sess EXCEPT !.has_plan = TRUE,
                            !.n_messages = @ + 1,
                            !.research_result = NoneV,
                            !.steps_in_current_turn = 0,
                            !.continue_after_pause = FALSE]
    /\ pc' = "conv"
    /\ pre' = plan'
    /\ upd' = NullUpdate
    /\ ret' = "none"
    /\ turnlog' = TurnLogInit
    /\ response' = NoResponse
    /\ UNCHANGED <<calls, stored>>

\* nodes.py lines 395-618: one run of conversation_agent
ConversationAgent(first, second) ==
    /\ pc = "conv"
    /\ sess.n_messages < MaxMessages
    /\ pre' = plan
    /\ IF ~first.ok
       THEN \* the first completion call raises out of conversation_agent
            /\ turnlog' = TurnLog(1, FALSE, FALSE, AtomV("NONE"),
                                  sess.steps_in_current_turn, "raised")
            /\ pc' = "idle"
            /\ UNCHANGED <<plan, upd, ret, calls, sess, response, stored>>
       ELSE \E c \in {Completion(first, second)},
               inj \in {InjectSources(plan, sess.research_result)} :
            \E d \in {ExtractDirective(c.parsed, c.content)} :
                IF d.raised
                THEN \* control.get raises after the sources were injected
                     /\ plan' = inj.plan
                     /\ sess' = [sess EXCEPT !.research_result = inj.research_result]
                     /\ turnlog' = TurnLogOf(
                                        TurnLog(c.llm_calls, HoldsJsonValue(first.content),
                                                c.retried, AtomV("NONE"),
                                                sess.steps_in_current_turn, "raised"),
                                        first, second, d)
                     /\ pc' = "idle"
                     /\ UNCHANGED <<upd, ret, calls, response, stored>>
                ELSE \E applied \in {ApplyDirective(inj.plan, d)} :
                     /\ plan' = applied.plan
                     /\ upd' = d.update_data
                     /\ ret' = applied.ret
                     /\ sess' = HandleAction(
                                    [sess EXCEPT !.research_result = inj.research_result,
                                                 !.n_messages = @ + 1,
                                                 !.last_ai = c.content,
                                                 !.last_action = d.action,
                                                 !.new_version_created = applied.version_bumped],
                                    d)
                     /\ turnlog' = TurnLogOf(
                                        TurnLog(c.llm_calls, HoldsJsonValue(first.content),
                                                c.retried, d.action,
                                                sess.steps_in_current_turn, "returned"),
                                        first, second, d)
                     /\ pc' = "route"
                     /\ UNCHANGED <<calls, response, stored>>

\* the edge after the conversation node: research when it is needed
RouteToResearch ==
    /\ pc = "route"
    /\ sess.research_needed
    /\ pc' = "research"
    /\ UNCHANGED <<plan, pre, upd, ret, calls, sess, turnlog, response, stored>>

\* main.py lines 208-313: the graph ended, the session is stored and the
\* response is built
EndTurn ==
    /\ pc = "route"
    /\ ~sess.research_needed
    /\ pc' = "idle"
    /\ stored' = StoredSame
    /\ response' = ChatResponse(sess)
    /\ UNCHANGED <<plan, pre, upd, ret, calls, sess, turnlog>>

\* the research node: one research step, whose result goes back to the
\* conversation node
ResearchNode(result) ==
    /\ pc = "research"
    /\ sess' = [sess EXCEPT
                    !.research_result = result,
                    !.steps_in_current_turn = @ + 1,
                    !.current_task_index =
                        IF sess.research_mode = "multi" THEN @ + 1 ELSE @,
                    !.aggregated_findings =
                        IF sess.research_mode = "multi" THEN @ + 1 ELSE @]
    /\ pc' = "conv"
    /\ UNCHANGED <<plan, pre, upd, ret, calls, turnlog, response, stored>>

\* UpdatePlan with the history started anew from the snapshot of the old plan
UpdatePlanFreshHistory(plan_data) ==
    /\ pc = "idle"
    /\ sess.has_plan
    /\ plan.version < MaxVersion
    /\ pre' = plan
    /\ plan' = [title |-> plan_data.title,
                version |-> IF plan_data.version <= plan.version
                            THEN plan.version + 1 ELSE plan_data.version,
                sections |-> plan_data.sections,
                history |-> <<Snapshot(plan)>>]
    /\ upd' = NullUpdate
    /\ ret' = "put"
    /\ UNCHANGED <<calls, sess, pc, turnlog, response, stored>>

\* main.py lines 315-360: PUT /api/plans/{plan_id}
UpdatePlan(plan_data) ==
    /\ pc = "idle"
    /\ sess.has_plan
    /\ plan.version < MaxVersion
    /\ pre' = plan
    /\ plan' = [title |-> plan_data.title,
                version |-> IF plan_data.version <= plan.version
                            THEN plan.version + 1 ELSE plan_data.version,
                sections |-> plan_data.sections,
                history |-> Append(plan.history, Snapshot(plan))]
    /\ upd' = NullUpdate
    /\ ret' = "put"
    /\ UNCHANGED <<calls, sess, pc, turnlog, response, stored>>

Next ==
    \/ Chat
    \/ \E first \in LlmResults :
            \E second \in (IF first.ok /\ ~Truthy(ParseJsonOutput(first.content))
                           THEN LlmResults ELSE {LlmRaises}) :
                ConversationAgent(first, second)
    \/ RouteToResearch
    \/ EndTurn
    \/ \E result \in ResearchResults : ResearchNode(result)
    \/ \E plan_data \in PutPlans : UpdatePlan(plan_data)

Spec == Init /\ [][Next]_vars

-----------------------------------------------------------------------------
(* Requests that arrive while a chat turn awaits the graph (main.py 206)   *)

\* main.py lines 315-360: PUT /api/plans/{plan_id} while the turn is
\* suspended: the plan of the SESSIONS entry is replaced, the turn keeps the
\* plan object it was started with
UpdatePlanDuringTurn(plan_data) ==
    /\ pc # "idle"
    /\ stored # NotStored
    /\ \E current_plan \in {IF stored = StoredSame THEN plan ELSE stored.v} :
            /\ current_plan.version < MaxVersion
            /\ stored' = StoredPlan(
                    [title |-> plan_data.title,
                     version |-> IF plan_data.version <= current_plan.version
                                 THEN current_plan.version + 1 ELSE plan_data.version,
                     sections |-> plan_data.sections,
                     history |-> Append(current_plan.history, Snapshot(current_plan))])
    /\ UNCHANGED <<plan, pre, upd, ret, calls, sess, pc, turnlog, response>>

NextInterleaved ==
    \/ Next
    \/ \E plan_data \in PutPlans : UpdatePlanDuringTurn(plan_data)

SpecInterleaved == Init /\ [][NextInterleaved]_vars

-----------------------------------------------------------------------------
(* get_clean_content on its own: the display extraction applied to a       *)
(* message, and applied again to what it returned                          *)

MaxCleans == 2

\* "reply": "{\"reply\": \"hi\"}": the reply is text that holds a directive
OutNestedReply == Object(<<Member(KeyReply, RawReply(Object(<<ReplyHi>>)))>>)
\* "reply": null
OutReplyNull == Object(<<Member(KeyReply, NoneV), ControlOf("NONE")>>)
\* "reply": "x}": text with a brace that is no JSON value
OutReplyBrace == Object(<<Member(KeyReply, StrV(<<"x", "}">>))>>)

\* prose before and blanks after the JSON block of a message
Prefixes == {<<>>, <<Ch("H"), Ch("i"), Ch("\n")>>}
Suffixes == {<<>>, <<Ch(" ")>>}

\* the contents of the assistant messages that are surfaced
CleanMessages ==
    {before \o out \o after :
        before \in Prefixes, after \in Suffixes,
        out \in LlmOutputs \cup {OutNestedReply, OutReplyNull, OutReplyBrace}}

\* the text of a str, as get_clean_content reads it
TextOf(value) ==
    IF value.t = "raw" THEN value.v ELSE [i \in 1..Len(value.v) |-> Ch(value.v[i])]

\* main.py lines 95-117 on what a first call returned: a value that is not a
\* str makes json.loads and find raise, and is returned as it is
GetCleanContentOf(value) ==
    IF value.t \in {"raw", "str"} THEN GetCleanContent(TextOf(value)) ELSE value

InitClean ==
    /\ plan = NewAccountPlan
    /\ pre = NewAccountPlan
    /\ upd = NullUpdate
    /\ ret = "none"
    /\ calls = 0
    /\ \E content \in CleanMessages : sess = [SessInit EXCEPT !.last_ai = content]
    /\ pc = "idle"
    /\ turnlog = TurnLogInit
    /\ response = NoResponse
    /\ stored = NotStored

\* main.py line 227: the reply of the response
Clean ==
    /\ ~response.sent
    /\ response' = ChatResponse(sess)
    /\ UNCHANGED <<plan, pre, upd, ret, calls, sess, pc, turnlog, stored>>

\* a consumer applies the extraction to the content it was given
CleanAgain ==
    /\ response.sent
    /\ calls < MaxCleans
    /\ response' = [response EXCEPT !.reply = GetCleanContentOf(response.reply)]
    /\ calls' = calls + 1
    /\ UNCHANGED <<plan, pre, upd, ret, sess, pc, turnlog, stored>>

NextClean == Clean \/ CleanAgain

SpecClean == InitClean /\ [][NextClean]_vars

-----------------------------------------------------------------------------
(* Claims about the merge engine                                           *)

\* the last operation was an apply_plan_update call that got past line 190
Applied == ret \in {"True", "False", "raised"} /\ ~UpdateIsFalsy(upd)

\* the last update_data was the single command of the given mode
SingleCommand(mode) == upd.t = "obj" /\ upd.v[1].mode = mode

IsResearchSources(s) == PyLower(s.title) = LitResearchSourcesLower

\* C1: every apply_plan_update call with a non-empty update appends exactly
\* one snapshot of the plan as it was before any command, whatever the number
\* of commands and also when the call returns False.
C1_OneSnapshotPerCall ==
    Applied => plan.history = Append(pre.history, Snapshot(pre))

\* C1 witness: a two-command call on a plan with sections that returned False
C1_Witness ==
    /\ Applied /\ ret = "False"
    /\ upd.t = "list" /\ Len(upd.v) = 2
    /\ pre.sections # <<>>
    /\ Len(plan.history) = Len(pre.history) + 1

\* C3: after an apply_plan_update call that returned True, a section titled
\* "research sources" (case-insensitively) is the last section.
C3_ResearchSourcesLast ==
    (Applied /\ ret = "True") =>
        \A i \in 1..Len(plan.sections) :
            IsResearchSources(plan.sections[i]) => i = Len(plan.sections)

\* C3 witness: the sources section was moved to index 0 in a plan with other
\* sections, and is last when the call returns
C3_Witness ==
    /\ Applied /\ ret = "True"
    /\ SingleCommand("move") /\ upd.v[1].section = PathResearchSources
    /\ upd.v[1].content = IntV(0)
    /\ Len(plan.sections) >= 2
    /\ IsResearchSources(plan.sections[Len(plan.sections)])

\* the loop of apply_plan_update as the failure policy describes it: an item
\* that raises is skipped and the loop goes on with the next one
RECURSIVE ApplyItemsSkipping(_, _, _, _)
AfterItemSkipping(r, updates, i, any_changed) ==
    ApplyItemsSkipping(r.sections, updates, i + 1, any_changed \/ (~r.raised /\ r.changed))

ApplyItemsSkipping(sections, updates, i, any_changed) ==
    IF i > Len(updates) THEN Outcome(sections, any_changed, FALSE)
    ELSE AfterItemSkipping(ApplyItem(sections, updates[i]), updates, i, any_changed)

SectionsAfterSkipping(r) ==
    IF r.changed THEN RelocateResearchSources(r.sections) ELSE r.sections

\* C7: a command that raises while being applied is skipped and every later
\* command of the list is still applied.
C7_LaterCommandsApplied ==
    Applied =>
        /\ ret # "raised"
        /\ plan.sections =
               SectionsAfterSkipping(ApplyItemsSkipping(pre.sections, upd.v, 1, FALSE))

\* the normalized comparison of titles: case-insensitive, underscore and
\* space interchangeable
NormTitle(title) == PyLower(PyReplaceUnderscore(title))

\* C8: starting from a plan with no sections, no two sections have titles
\* that are equal under the normalized comparison.
C8_TitlesUnique ==
    \A i, j \in 1..Len(plan.sections) :
        i # j => NormTitle(plan.sections[i].title) # NormTitle(plan.sections[j].title)

\* C9: applying the same replace command a second time leaves the sections
\* (titles, order, content) as the first application left them.
C9_ReplaceIdempotent ==
    (Applied /\ SingleCommand("replace")) =>
        ApplyPlanUpdate(plan, upd).plan.sections = plan.sections

\* the last call was a single move to index 0, without a target key, of the
\* section at position idx of the plan it was applied to
MovedToZero(idx) ==
    /\ Applied /\ SingleCommand("move")
    /\ PyIntOk(upd.v[1].content) /\ PyInt(upd.v[1].content) = 0
    /\ LET parts == PySplitDot(upd.v[1].section)
           raw_title == PyStrip(parts[1])
       IN  /\ upd.v[1].section # <<>>
           /\ TargetKey(parts) = <<>>
           /\ idx = FindSection(pre.sections, raw_title,
                                PyTitle(PyReplaceUnderscore(raw_title)))

\* C10 as stated: a move to index 0 of an existing section leaves it at
\* position 0, whichever section it is.
C10_MoveToZeroIsFirst ==
    \A idx \in 1..Len(pre.sections) :
        MovedToZero(idx) => plan.sections[1] = pre.sections[idx]

\* C10 amended: a move to index 0 of an existing section leaves it at
\* position 0 unless its title is "research sources" (case-insensitively);
\* a sources section moved from a later position is last instead.
C10_MoveToZeroIsFirstUnlessSources ==
    \A idx \in 1..Len(pre.sections) :
        MovedToZero(idx) =>
            IF IsResearchSources(pre.sections[idx]) /\ idx > 1
            THEN plan.sections[Len(plan.sections)] = pre.sections[idx]
            ELSE plan.sections[1] = pre.sections[idx]

\* C10 witness: a section that was not first, and is not the sources
\* section, is first after the move
C10_Witness ==
    \E idx \in 2..Len(pre.sections) :
        /\ MovedToZero(idx)
        /\ ~IsResearchSources(pre.sections[idx])
        /\ plan.sections[1] = pre.sections[idx]
        /\ plan.sections # pre.sections

\* the last call was a single move, without a target key, of the section at
\* position idx of the plan it was applied to, to an index that is at least
\* the number of sections
MovedPastEnd(idx) ==
    /\ Applied /\ SingleCommand("move")
    /\ PyIntOk(upd.v[1].content) /\ PyInt(upd.v[1].content) >= Len(pre.sections)
    /\ LET parts == PySplitDot(upd.v[1].section)
           raw_title == PyStrip(parts[1])
       IN  /\ upd.v[1].section # <<>>
           /\ TargetKey(parts) = <<>>
           /\ idx = FindSection(pre.sections, raw_title,
                                PyTitle(PyReplaceUnderscore(raw_title)))

\* another section than the one at idx is the sources section
OtherIsSources(sections, idx) ==
    \E j \in 1..Len(sections) : j # idx /\ IsResearchSources(sections[j])

\* C11 as stated: a move to an index that is at least the number of sections
\* leaves the moved section last, whatever other sections the plan contains.
C11_MovePastEndIsLast ==
    \A idx \in 1..Len(pre.sections) :
        MovedPastEnd(idx) => plan.sections[Len(plan.sections)] = pre.sections[idx]

\* C11 amended: such a move leaves the moved section last unless another
\* section is the sources section; then the sources section is last and the
\* moved section is just before it.
C11_MovePastEndIsLastUnlessSources ==
    \A idx \in 1..Len(pre.sections) :
        MovedPastEnd(idx) =>
            IF OtherIsSources(pre.sections, idx)
            THEN /\ IsResearchSources(plan.sections[Len(plan.sections)])
                 /\ plan.sections[Len(plan.sections) - 1] = pre.sections[idx]
            ELSE plan.sections[Len(plan.sections)] = pre.sections[idx]

\* C11 witness: a section that was not last, in a plan without a sources
\* section, is last after the move
C11_Witness ==
    \E idx \in 1..(Len(pre.sections) - 1) :
        /\ MovedPastEnd(idx)
        /\ ~OtherIsSources(pre.sections, idx)
        /\ plan.sections[Len(plan.sections)] = pre.sections[idx]
        /\ plan.sections # pre.sections

\* section paths written in other letter case and with the other separator
PathVariants ==
    {PathA, <<"A">>, PathUnderscoreA, <<" ","a">>,
     PathAKey, <<"A",".","K">>, <<"a",".","_","k">>, <<"a","."," ","k">>,
     PathResearchSources,
     <<"r","e","s","e","a","r","c","h","_","s","o","u","r","c","e","s">>,
     <<"R","E","S","E","A","R","C","H"," ","S","O","U","R","C","E","S">>}

\* a path with its letter case and its separators taken away
NormPath(path) == PyLower(PyReplaceUnderscore(path))

\* the last call was a single command, and path differs from its section path
\* only in letter case and in underscore versus space
VariantOfApplied(path) ==
    Applied /\ upd.t = "obj" /\ NormPath(path) = NormPath(upd.v[1].section)

\* C12: two commands that differ only in the letter case and in underscore
\* versus space of their section path yield the same plan sections.
C12_PathResolutionInsensitive ==
    \A path \in PathVariants :
        VariantOfApplied(path) =>
            ApplyPlanUpdate(pre, OneUpdate(Cmd(path, upd.v[1].content, upd.v[1].mode)))
                .plan.sections = plan.sections

\* the last call was a single merge, on a target key, of a section that the
\* plan it was applied to had at position idx
MergedOnKey(idx) ==
    /\ Applied /\ SingleCommand("merge")
    /\ upd.v[1].section # <<>>
    /\ TargetKey(PySplitDot(upd.v[1].section)) # <<>>
    /\ idx = FindSection(pre.sections, PyStrip(PySplitDot(upd.v[1].section)[1]),
                         PyTitle(PyReplaceUnderscore(PyStrip(PySplitDot(upd.v[1].section)[1]))))

\* the key of the section's content that the command's target key names
MergedKey(idx) ==
    ResolveKey(pre.sections[idx].content, TargetKey(PySplitDot(upd.v[1].section)))

\* the value under that key and the new content are both mappings
BothMappings(idx) ==
    /\ IsDict(Unwrap(upd.v[1].content))
    /\ IsDict(pre.sections[idx].content)
    /\ DictHas(pre.sections[idx].content, MergedKey(idx))
    /\ IsDict(DictAt(pre.sections[idx].content, MergedKey(idx)))

\* C28: merge with a target key on an existing section updates the mapping
\* under the key with the new entries when that value and the new content
\* are both mappings; in every other case (key absent, value not a mapping,
\* content not a mapping) it sets the key to the new content as replace does.
C28_MergeOnKey ==
    \A idx \in 1..Len(pre.sections) :
        MergedOnKey(idx) =>
            /\ ret # "raised"
            /\ plan.sections =
                IF BothMappings(idx)
                THEN SeqSet(pre.sections, idx,
                        Section(pre.sections[idx].title,
                            DictSet(pre.sections[idx].content, MergedKey(idx),
                                DictUpdate(DictAt(pre.sections[idx].content, MergedKey(idx)),
                                           Unwrap(upd.v[1].content)))))
                ELSE ApplyPlanUpdate(pre,
                        OneUpdate(Cmd(upd.v[1].section, upd.v[1].content, "replace")))
                     .plan.sections

\* the last call was a single append, without a target key, onto the section
\* that the plan it was applied to had at position idx
AppendedWhole(idx) ==
    /\ Applied /\ SingleCommand("append")
    /\ upd.v[1].section # <<>>
    /\ TargetKey(PySplitDot(upd.v[1].section)) = <<>>
    /\ idx = FindSection(pre.sections, PyStrip(PySplitDot(upd.v[1].section)[1]),
                         PyTitle(PyReplaceUnderscore(PyStrip(PySplitDot(upd.v[1].section)[1]))))

\* what append on a target key makes of a value and a new content
AppendedAsKey(current_val, content) ==
    AppendKey(DictV(<<Item(LitGeneral, current_val)>>), LitGeneral, content)

\* C29: append without a target key combines the section content and the new
\* content by the type-pair rules of append on a target key: two strings are
\* joined by one newline, two lists are concatenated, a value that is not a
\* list is appended to a list, and a pair of other types becomes a list of
\* both values, the old content not being overwritten.
C29_AppendWholeAsKey ==
    \A idx \in 1..Len(pre.sections) :
        (AppendedWhole(idx)
            /\ AppendedAsKey(pre.sections[idx].content, Unwrap(upd.v[1].content)).ok) =>
            \E j \in 1..Len(plan.sections) :
                plan.sections[j] =
                    Section(pre.sections[idx].title,
                            DictAt(AppendedAsKey(pre.sections[idx].content,
                                                 Unwrap(upd.v[1].content)).content,
                                   LitGeneral))

-----------------------------------------------------------------------------
(* Claims about the chat turn                                              *)

\* the last operation was a run of conversation_agent that returned
ConvReturned == turnlog.outcome = "returned" /\ ret # "put"

\* the last operation was a PUT of the plan
PutDone == ret = "put"

\* C2: plan.version is strictly greater after a conversation step that
\* changed the sections or the title, and after a plan PUT, than it was
\* before that operation.
C2_VersionIncreasesOnMutation ==
    /\ (ConvReturned /\ (plan.sections # pre.sections \/ plan.title # pre.title))
            => plan.version > pre.version
    /\ PutDone => plan.version > pre.version

\* the directive just handled, with the session as conversation_agent left it
Handled(action) == pc = "route" /\ turnlog.action = AtomV(action)

\* C4: EXECUTE_PLAN handled at steps_in_current_turn = 0 sets
\* continue_after_pause false and research_needed true; handled at
\* steps_in_current_turn >= 1 it sets continue_after_pause true and
\* research_needed false.
C4_ExecutePlanPauses ==
    Handled("EXECUTE_PLAN") =>
        IF turnlog.steps = 0
        THEN ~sess.continue_after_pause /\ sess.research_needed
        ELSE sess.continue_after_pause /\ ~sess.research_needed

\* C4 witness: EXECUTE_PLAN handled after a research step of the same turn
C4_Witness ==
    /\ Handled("EXECUTE_PLAN")
    /\ turnlog.steps >= 1
    /\ sess.continue_after_pause
    /\ ~sess.research_needed

\* C5: once a research step ran in the turn (steps_in_current_turn >= 1), no
\* directive of the same turn leaves research_needed true.
C5_OneResearchStepPerTurn ==
    (pc = "route" /\ turnlog.steps >= 1) => ~sess.research_needed

\* C6: a run of conversation_agent calls the completion service at most
\* twice, and makes the retry call exactly when the first output yields no
\* parsed JSON value.
C6_RetryOnlyWhenUnparsed ==
    ConvReturned =>
        /\ turnlog.llm_calls <= 2
        /\ turnlog.retried <=> (turnlog.llm_calls = 2)
        /\ turnlog.retried <=> ~turnlog.first_parsed

\* the last operation was a run of conversation_agent whose first completion
\* call returned
ConvRan == turnlog.first # <<>> /\ ret # "put"

\* the first output is, or holds between its first '{' and its last '}', a
\* JSON object with one of the keys reply, control, update
DirectiveShaped(text) ==
    /\ JsonBlock(text).found
    /\ JsonLoads(JsonBlock(text).raw).ok
    /\ \E key \in {KeyReply, KeyControl, KeyUpdate} :
            DictHas(JsonLoads(JsonBlock(text).raw).value, key)

\* a field of the object's control, or the default when it is not there
ControlField(obj, field, default) ==
    IF DictHas(obj, KeyControl) /\ DictAt(obj, KeyControl).t = "control"
    THEN ControlGet(DictAt(obj, KeyControl), field, default)
    ELSE default

\* the run yielded the fields of obj, without a retry
YieldsFieldsOf(obj) ==
    /\ turnlog.outcome = "returned"
    /\ ~turnlog.retried
    /\ turnlog.reply = (IF DictHas(obj, KeyReply) THEN DictAt(obj, KeyReply) ELSE StrV(<<>>))
    /\ turnlog.action = ControlField(obj, "action", AtomV("NONE"))
    /\ turnlog.research_query = ControlField(obj, "research_query", StrV(<<>>))
    /\ upd = DictGet(obj, KeyUpdate)

\* C13: for an output that is, or holds between its first '{' and its last
\* '}', an object with one of the keys reply, control, update, the run yields
\* that object's reply, action (NONE when absent), research_query ("" when
\* absent) and update (null when absent), with or without prose before the
\* object, and without a retry.
C13_DirectiveFieldsExtracted ==
    (ConvRan /\ DirectiveShaped(turnlog.first)) =>
        YieldsFieldsOf(JsonLoads(JsonBlock(turnlog.first).raw).value)

\* the first output and the output of the retry both failed to parse
DoubleFailure ==
    /\ ConvRan
    /\ ~HoldsJsonValue(turnlog.first)
    /\ turnlog.second # <<>>
    /\ ~HoldsJsonValue(turnlog.second)

\* C14: when the first output and the retried output both fail to parse, the
\* stored assistant message and the reply of the response are the second raw
\* text, the action is NONE and no update of the model is applied.
C14_DegradedModeSurfacesSecondText ==
    DoubleFailure =>
        /\ turnlog.outcome = "returned"
        /\ sess.last_ai = turnlog.second
        /\ turnlog.reply = RawReply(turnlog.second)
        /\ turnlog.action = AtomV("NONE")
        /\ upd = NullUpdate /\ ret = "none"
        /\ response.sent => response.reply = RawReply(turnlog.second)

\* C14 witness: two different unparseable outputs, and the response carries
\* the second one
C14_Witness ==
    /\ DoubleFailure
    /\ turnlog.first # turnlog.second
    /\ response.sent
    /\ response.reply = RawReply(turnlog.second)

\* a chat turn has started and the conversation step has not run yet
TurnStart == pc = "conv" /\ turnlog = TurnLogInit

\* C15: at the start of every chat turn, before the conversation step runs,
\* steps_in_current_turn is 0, continue_after_pause is false and
\* research_result is empty, whatever the previous turn left.
C15_TurnStartsClean ==
    TurnStart =>
        /\ sess.steps_in_current_turn = 0
        /\ ~sess.continue_after_pause
        /\ sess.research_result = NoneV

\* C15 witness: the start of a turn that follows a turn with a research step
\* which ended paused on EXECUTE_PLAN
C15_Witness ==
    /\ TurnStart
    /\ sess.n_messages >= 4
    /\ sess.last_action = AtomV("EXECUTE_PLAN")
    /\ sess.current_task_index >= 1
    /\ sess.steps_in_current_turn = 0
    /\ sess.research_result = NoneV

\* C16: PLAN_RESEARCH with a non-empty research_plan replaces the session's
\* research_plan and sets current_task_index 0, aggregated_findings empty,
\* research_mode multi and research_plan_approved false; with an empty or
\* missing research_plan it leaves those five fields as they were; in both
\* cases research_needed is false afterwards.
C16_PlanResearchResetsProgress ==
    Handled("PLAN_RESEARCH") =>
        /\ ~sess.research_needed
        /\ PlanProgress(sess) =
              IF Truthy(turnlog.new_research_plan)
              THEN [research_plan |-> turnlog.new_research_plan,
                    current_task_index |-> 0,
                    aggregated_findings |-> 0,
                    research_mode |-> "multi",
                    research_plan_approved |-> FALSE]
              ELSE turnlog.before

\* C16 witness: a new plan arrives while an approved plan has a step done,
\* and that progress is gone
C16_Witness ==
    /\ Handled("PLAN_RESEARCH")
    /\ Truthy(turnlog.new_research_plan)
    /\ turnlog.before.research_plan_approved
    /\ turnlog.before.current_task_index >= 1
    /\ sess.current_task_index = 0
    /\ ~sess.research_plan_approved

\* C16 witness of the other case: PLAN_RESEARCH without a plan leaves the
\* progress of an approved plan as it was
C16_WitnessEmpty ==
    /\ Handled("PLAN_RESEARCH")
    /\ ~Truthy(turnlog.new_research_plan)
    /\ turnlog.before.research_plan_approved
    /\ turnlog.before.current_task_index >= 1
    /\ PlanProgress(sess) = turnlog.before

\* conversation_agent has just returned, and it started with a
\* research_result that carried a non-empty sources list
RanWithSources ==
    /\ pc = "route"
    /\ ConvReturned
    /\ IsDict(turnlog.research_result)
    /\ DictHas(turnlog.research_result, KeySources)
    /\ Truthy(DictAt(turnlog.research_result, KeySources))

\* the sections as the out-of-band append left them: those of the snapshot
\* taken by the model's own update, or the plan's when there was none
SectionsAfterInjection ==
    IF ret = "none" THEN plan.sections ELSE plan.history[Len(plan.history)].sections

\* entries are the last elements of the content of the last section, which is
\* titled "Research Sources"
EndsWithSources(sections, entries) ==
    /\ sections # <<>>
    /\ sections[Len(sections)].title = LitResearchSources
    /\ IsList(sections[Len(sections)].content)
    /\ Len(sections[Len(sections)].content.v) >= Len(entries)
    /\ \A i \in 1..Len(entries) :
            sections[Len(sections)].content.v
                [Len(sections[Len(sections)].content.v) - Len(entries) + i] = entries[i]

\* C17: a conversation step that runs with a research_result carrying a
\* non-empty sources list appends those sources to "Research Sources" by
\* exactly one apply_plan_update call and removes the sources key from
\* research_result, so that a later step on the same research_result appends
\* nothing.
C17_SourcesInjectedOnce ==
    RanWithSources =>
        /\ Len(plan.history) = Len(pre.history) + 1 + (IF ret = "none" THEN 0 ELSE 1)
        /\ plan.history[Len(pre.history) + 1] = Snapshot(pre)
        /\ EndsWithSources(SectionsAfterInjection,
                           SourcesContent(DictAt(turnlog.research_result, KeySources)).v)
        /\ sess.research_result = DictDel(turnlog.research_result, KeySources)
        /\ InjectSources(plan, sess.research_result).plan = plan

\* C17 witness: the sources of a second research step were appended after
\* those of the first, in a step that also applied an update of the model
C17_Witness ==
    /\ RanWithSources
    /\ ret = "True"
    /\ Len(plan.sections) >= 2
    /\ Len(SectionsAfterInjection[Len(SectionsAfterInjection)].content.v) >= 2

\* xs is a prefix of ys
IsPrefix(xs, ys) == Len(xs) <= Len(ys) /\ SubSeq(ys, 1, Len(xs)) = xs

\* C18: plan.history is append-only: across the apply_plan_update calls of a
\* conversation step and across plan PUTs, the history before a step is a
\* prefix of the history after it, so that no entry is changed or removed.
C18_HistoryAppendOnly == [][IsPrefix(plan.history, plan'.history)]_vars

\* C18 witness: a PUT has extended a history that apply_plan_update calls had
\* already filled
C18_Witness ==
    /\ ret = "put"
    /\ Len(pre.history) >= 2
    /\ Len(plan.history) = Len(pre.history) + 1
    /\ plan.sections # pre.sections

\* C19: in every reachable state, after any sequence of apply_plan_update
\* calls and plan PUTs, no entry of plan.history holds a non-empty history of
\* its own.
C19_NoNestedHistory ==
    \A i \in 1..Len(plan.history) :
        "history" \in DOMAIN plan.history[i] => plan.history[i].history = <<>>

\* C19 witness: an apply_plan_update call has snapshotted a plan whose own
\* history already held a snapshot of other sections
C19_Witness ==
    /\ ret = "True"
    /\ Len(pre.history) >= 1
    /\ Len(plan.history) >= 2
    /\ \E i \in 1..Len(pre.history) : pre.history[i].sections # plan.history[Len(plan.history)].sections

\* conversation_agent has just returned from a step that made at most one
\* apply_plan_update call and left the plan's fields other than they were
MutatedInStep ==
    /\ pc = "route"
    /\ ConvReturned
    /\ Len(plan.history) <= Len(pre.history) + 1
    /\ Snapshot(plan) # Snapshot(pre)

\* C20: every mutation of the plan during a turn, a title change through
\* set_plan_title in a turn whose update is null included, is preceded by
\* appending the pre-mutation snapshot to plan.history: after it the last
\* history entry is the plan's fields, minus history, as they were before.
C20_MutationsSnapshotted ==
    MutatedInStep =>
        /\ Len(plan.history) = Len(pre.history) + 1
        /\ plan.history[Len(plan.history)] = Snapshot(pre)

\* C21: when the first output and the retried output both fail to parse, the
\* conversation step leaves the plan as it was: sections, title and history
\* are the same after the step as before it, whatever research_result the
\* session holds.
C21_DoubleFailureLeavesPlan ==
    (pc = "route" /\ DoubleFailure) => plan = pre

\* C22: the conversation step never aborts the turn: whatever the completion
\* service does, a failure of the first call included, and whatever the parsed
\* output is, a null control included, conversation_agent returns a state
\* with a reply and does not raise to its caller.
C22_ConvNeverRaises ==
    turnlog.llm_calls >= 1 =>
        /\ turnlog.outcome = "returned"
        /\ turnlog.reply # NoneV

\* C23: apply_plan_update returns True if and only if some section changed:
\* it returns False when the sections after the call (titles, order, content)
\* equal those before it, as when the only command deletes a target key that
\* is absent or a key of a section that is not a mapping.
C23_TrueIffChanged ==
    (Applied /\ ret # "raised") =>
        ((ret = "True") <=> (plan.sections # pre.sections))

\* a session that has the given one's research_plan, research_mode,
\* research_plan_approved, current_task_index and research_result, and
\* nothing else of it
FlagsOnly(state) ==
    [SessInit EXCEPT !.research_plan = state.research_plan,
                     !.research_mode = state.research_mode,
                     !.research_plan_approved = state.research_plan_approved,
                     !.current_task_index = state.current_task_index,
                     !.research_result = state.research_result]

\* C25: the progress projection is read-only and deterministic: the step that
\* computes the progress record changes no field of the session or of the
\* plan, and the record is the one computed from any session with the same
\* research_plan, research_mode, research_plan_approved, current_task_index
\* and research_result.
C25_ProgressReadOnly ==
    [][(pc = "route" /\ pc' = "idle") =>
            /\ sess' = sess
            /\ plan' = plan
            /\ response'.progress = Progress(FlagsOnly(sess))]_vars

\* C25 witness: the response shows the second step of an approved plan, in a
\* turn that made a research step
C25_Witness ==
    /\ pc = "idle"
    /\ response.sent
    /\ response.progress.shown
    /\ response.progress.visual = "progress_bar"
    /\ response.progress.current_step = 2
    /\ turnlog.steps >= 1

\* C26: an EXECUTE_PLAN directive sets research_mode to multi and
\* research_plan_approved to true in both of its branches, also when
\* steps_in_current_turn >= 1 and the research_mode was single before.
C26_ExecutePlanSetsMulti ==
    Handled("EXECUTE_PLAN") =>
        /\ sess.research_mode = "multi"
        /\ sess.research_plan_approved

\* C27: after a directive with action NONE, research_needed is false and no
\* approved plan is in execution, so that the progress projection reports no
\* multi-step progress; a plan may still be proposed. This holds also when
\* the NONE directive follows a step of an approved plan.
C27_NoneLeavesIdle ==
    Handled("NONE") =>
        /\ ~sess.research_needed
        /\ Progress(sess).visual # "progress_bar"

\* C31: in every reachable session state, research_plan_approved = true
\* implies that the session holds a non-empty research_plan: EXECUTE_PLAN
\* cannot approve, or set research_needed for, a plan never proposed.
C31_ApprovedPlanExists ==
    /\ sess.research_plan_approved => Truthy(sess.research_plan)
    /\ (Handled("EXECUTE_PLAN") /\ sess.research_needed) => Truthy(sess.research_plan)

\* C32: every progress record reported by a chat response has
\* 1 <= current_step <= total_steps, for every current_task_index the session
\* can reach, the number of tasks after the last step included.
C32_ProgressStepInRange ==
    (response.sent /\ response.progress.shown) =>
        /\ 1 <= response.progress.current_step
        /\ response.progress.current_step <= response.progress.total_steps

\* C33: at the end of a conversation step new_version_created is true
\* whenever the step changed the plan, be it through the update command of
\* the model, through set_plan_title, or through the out-of-band append of
\* research sources to "Research Sources".
C33_NewVersionOnChange ==
    (pc = "route" /\ ConvReturned
        /\ (plan.sections # pre.sections \/ plan.title # pre.title)) =>
        sess.new_version_created

-----------------------------------------------------------------------------
(* Claims about get_clean_content                                          *)

\* a str as its text, so that the two forms of the same str compare equal
AsText(value) == IF value.t \in {"raw", "str"} THEN RawReply(TextOf(value)) ELSE value

\* C24: get_clean_content is idempotent: applied to what it returned for a
\* message content, it returns the same, also when the reply field of the
\* content is itself text that parses as a JSON object with a reply field.
C24_CleanIdempotent ==
    response.sent => AsText(response.reply) = AsText(GetCleanContent(sess.last_ai))

-----------------------------------------------------------------------------
(* Claims about requests that interleave with a chat turn                  *)

\* C30: the session and its plan are owned by the turn that is processing
\* them: while a chat turn is suspended awaiting the completion or research
\* service, no other request changes the session's flags, its messages or
\* its plan, neither the turn's own nor what SESSIONS holds.
C30_TurnOwnsSession ==
    [][(pc # "idle" /\ pc' = pc) =>
            (sess' = sess /\ plan' = plan /\ stored' = stored)]_vars

====
